---------------------------- MODULE Spec2Model ----------------------------
(***************************************************************************)
(* Pointer-driven drag-and-resize of the dnr element: the composable       *)
(* useResizable and its inline copy in components/dmr.vue, rendered by the *)
(* template of dmr.vue (an absolutely positioned box inside a relatively   *)
(* positioned parent).                                                     *)
(*                                                                         *)
(* One action is one DOM event, with every listener it invokes: the        *)
(* listener on the element first (the event bubbles through dnr before it  *)
(* reaches window), then the window listeners in registration order, then  *)
(* the re-render of the template.                                          *)
(***************************************************************************)
EXTENDS Integers, Sequences, FiniteSets, TLC

\* ------------------------------------------------------------------ bounds
\* Number of pointer-downs handled in one behaviour.
MaxSessions == 2
\* Offset of the parent container from the viewport origin, when it has one.
ParentOffset == 8

\* --------------------------------------------------------- program constants
edgeThreshold == 16
DefaultSize == 100

VARIABLES
    lifecycle,          \* "setup" | "mounted" | "unmounted": dnr.value is the element iff "mounted"
    parentLeft,         \* viewport position of the parent container (environment)
    parentTop,
    x, y,               \* refs
    width, height,
    cursor,
    initialX, initialY,
    rectWidth,          \* rendered size of the element (CSS width/height in effect)
    rectHeight,
    windowPointermove,  \* listeners on window 'pointermove', in registration order
    windowPointerup,    \* { once: true } listeners on window 'pointerup'
    nextId,             \* identity of the next closure created by a pointer-down
    info,               \* result of the last getPointerInfo call of an element listener
    last,               \* history: the last event delivered
    anchor,             \* history: the event and the state at the last pointer-down
    downsSinceUp,       \* history: pointer-downs delivered since the last pointer-up
    snapshots,          \* history: <<x, y>> at each pointer-down since the last pointer-up
    dmr                 \* the inline copy in components/dmr.vue, fed the same events

vars == <<lifecycle, parentLeft, parentTop, x, y, width, height, cursor,
          initialX, initialY, rectWidth, rectHeight, windowPointermove,
          windowPointerup, nextId, info, last, anchor, downsSinceUp, snapshots, dmr>>

\* ----------------------------------------------------------------- geometry

\* dnr.value.getBoundingClientRect() under the template's style binding.
getBoundingClientRect ==
    [left   |-> parentLeft + x,
     top    |-> parentTop + y,
     width  |-> rectWidth,
     height |-> rectHeight]

\* A style assignment `${v}px`: a negative length is not a valid CSS width or
\* height, the assignment is dropped and the previous value stays in effect.
RenderedLength(v, old) == IF v >= 0 THEN v ELSE old

\* Hit test: the event is dispatched to the element when the pointer is over it.
OverElement(e) ==
    LET r == getBoundingClientRect IN
    /\ lifecycle = "mounted"
    /\ r.left <= e.clientX /\ e.clientX < r.left + r.width
    /\ r.top <= e.clientY /\ e.clientY < r.top + r.height

NullInfo ==
    [isNull |-> TRUE, offsetX |-> 0, offsetY |-> 0, nearLeft |-> FALSE,
     nearRight |-> FALSE, nearTop |-> FALSE, nearBottom |-> FALSE]

getPointerInfoStrict(e) ==
    IF lifecycle = "mounted"
    THEN LET r == getBoundingClientRect
             offsetX == e.clientX - r.left
             offsetY == e.clientY - r.top
         IN [isNull |-> FALSE, offsetX |-> offsetX, offsetY |-> offsetY,
             nearLeft   |-> offsetX < edgeThreshold,
             nearRight  |-> r.width - offsetX < edgeThreshold,
             nearTop    |-> offsetY < edgeThreshold,
             nearBottom |-> r.height - offsetY < edgeThreshold]
    ELSE NullInfo

getPointerInfoClientRight(e) ==
    IF lifecycle = "mounted"
    THEN LET r == getBoundingClientRect
             offsetX == e.clientX - r.left
             offsetY == e.clientY - r.top
         IN [isNull |-> FALSE, offsetX |-> offsetX, offsetY |-> offsetY,
             nearLeft   |-> offsetX <= edgeThreshold,
             nearRight  |-> r.width - e.clientX <= edgeThreshold,
             nearTop    |-> offsetY <= edgeThreshold,
             nearBottom |-> r.height - e.clientY <= edgeThreshold]
    ELSE NullInfo

getPointerInfo(e) ==
    IF lifecycle = "mounted"
    THEN LET r == getBoundingClientRect
             offsetX == e.clientX - r.left
             offsetY == e.clientY - r.top
             distanceToLeft == offsetX
             distanceToRight == r.width - offsetX
             distanceToTop == offsetY
             distanceToBottom == r.height - offsetY
         IN [isNull |-> FALSE, offsetX |-> offsetX, offsetY |-> offsetY,
             nearLeft   |-> distanceToLeft <= edgeThreshold,
             nearRight  |-> distanceToRight <= edgeThreshold,
             nearTop    |-> distanceToTop <= edgeThreshold,
             nearBottom |-> distanceToBottom <= edgeThreshold]
    ELSE NullInfo

\* ------------------------------------------------------------------- cursor

getCursorEdgesFirst(nearLeft, nearRight, nearTop, nearBottom) ==
    IF nearTop THEN "n-resize"
    ELSE IF nearBottom THEN "s-resize"
    ELSE IF nearLeft THEN "w-resize"
    ELSE IF nearRight THEN "e-resize"
    ELSE "grab"

getCursorMirrored(nearLeft, nearRight, nearTop, nearBottom) ==
    IF nearTop /\ nearLeft THEN "nw-resize"
    ELSE IF nearTop /\ nearRight THEN "ne-resize"
    ELSE IF nearBottom /\ nearLeft THEN "sw-resize"
    ELSE IF nearBottom /\ nearRight THEN "se-resize"
    ELSE IF nearTop THEN "n-resize"
    ELSE IF nearBottom THEN "s-resize"
    ELSE IF nearLeft THEN "e-resize"
    ELSE IF nearRight THEN "w-resize"
    ELSE "default"

getCursorFallsThrough(nearLeft, nearRight, nearTop, nearBottom) ==
    IF nearTop /\ nearLeft THEN "nw-resize"
    ELSE IF nearTop /\ nearRight THEN "ne-resize"
    ELSE IF nearBottom /\ nearLeft THEN "sw-resize"
    ELSE IF nearBottom /\ nearRight THEN "se-resize"
    ELSE IF nearTop THEN "n-resize"
    ELSE IF nearBottom THEN "s-resize"
    ELSE IF nearLeft THEN "w-resize"
    ELSE IF nearRight THEN "e-resize"
    ELSE "default"

getCursor(nearLeft, nearRight, nearTop, nearBottom) ==
    IF nearTop /\ nearLeft THEN "nw-resize"
    ELSE IF nearTop /\ nearRight THEN "ne-resize"
    ELSE IF nearBottom /\ nearLeft THEN "sw-resize"
    ELSE IF nearBottom /\ nearRight THEN "se-resize"
    ELSE IF nearTop THEN "n-resize"
    ELSE IF nearBottom THEN "s-resize"
    ELSE IF nearLeft THEN "w-resize"
    ELSE IF nearRight THEN "e-resize"
    ELSE "grab"

\* ----------------------------------------------------------------- sessions

directionsOfFirstWins(i) ==
    [horizontal |-> IF i.nearLeft THEN "left"
                    ELSE IF i.nearRight THEN "right" ELSE "none",
     vertical   |-> IF i.nearTop THEN "top"
                    ELSE IF i.nearBottom THEN "bottom" ELSE "none"]

\* The directions object built by the pointerdown listener: four sequential
\* assignments, the later one overwriting the earlier.
directionsOf(i) ==
    [horizontal |-> IF i.nearRight THEN "right"
                    ELSE IF i.nearLeft THEN "left" ELSE "none",
     vertical   |-> IF i.nearBottom THEN "bottom"
                    ELSE IF i.nearTop THEN "top" ELSE "none"]

startsResizeOnCorner(directions) ==
    directions.horizontal # "none" /\ directions.vertical # "none"

\* if (directions.horizontal || directions.vertical)
startsResize(directions) ==
    directions.horizontal # "none" \/ directions.vertical # "none"

\* The closure returned by createResizeHandler.
createResizeHandler(id, directions, startX, startY, startWidth, startHeight) ==
    [id |-> id, kind |-> "resize",
     horizontal |-> directions.horizontal, vertical |-> directions.vertical,
     startX |-> startX, startY |-> startY,
     startWidth |-> startWidth, startHeight |-> startHeight,
     offsetX |-> 0, offsetY |-> 0]

\* The closure `move` of the pointerdown listener; it captures info.
createMove(id, i) ==
    [id |-> id, kind |-> "move", horizontal |-> "none", vertical |-> "none",
     startX |-> 0, startY |-> 0, startWidth |-> 0, startHeight |-> 0,
     offsetX |-> i.offsetX, offsetY |-> i.offsetY]

\* The refs a window pointermove listener writes.
Refs == [x |-> x, y |-> y, width |-> width, height |-> height]

resizeHorizontalKeepsX(h, e, s) ==
    IF h.horizontal = "left"
    THEN [s EXCEPT !.width = h.startWidth - (e.clientX - h.startX)]
    ELSE IF h.horizontal = "right"
    THEN [s EXCEPT !.width = h.startWidth + (e.clientX - h.startX)]
    ELSE s

resizeHorizontalShiftsX(h, e, s) ==
    IF h.horizontal = "left"
    THEN [s EXCEPT !.width = h.startWidth - (e.clientX - h.startX),
                   !.x = initialX + (e.clientX - h.startX)]
    ELSE IF h.horizontal = "right"
    THEN [s EXCEPT !.width = h.startWidth + (e.clientX - h.startX),
                   !.x = initialX + (e.clientX - h.startX)]
    ELSE s

resizeHorizontalAccumulates(h, e, s) ==
    IF h.horizontal = "left"
    THEN [s EXCEPT !.width = s.width - (e.clientX - h.startX),
                   !.x = s.x + (e.clientX - h.startX)]
    ELSE IF h.horizontal = "right"
    THEN [s EXCEPT !.width = s.width + (e.clientX - h.startX)]
    ELSE s

resizeHorizontal(h, e, s) ==
    IF h.horizontal = "left"
    THEN LET deltaX == e.clientX - h.startX
             newWidth == h.startWidth - deltaX
         IN [s EXCEPT !.width = newWidth, !.x = initialX + deltaX]
    ELSE IF h.horizontal = "right"
    THEN LET deltaX == e.clientX - h.startX
         IN [s EXCEPT !.width = h.startWidth + deltaX]
    ELSE s

resizeVertical(h, e, s) ==
    IF h.vertical = "top"
    THEN LET deltaY == e.clientY - h.startY
             newHeight == h.startHeight - deltaY
         IN [s EXCEPT !.height = newHeight, !.y = initialY + deltaY]
    ELSE IF h.vertical = "bottom"
    THEN LET deltaY == e.clientY - h.startY
         IN [s EXCEPT !.height = h.startHeight + deltaY]
    ELSE s

resizeHandler(h, e, s) == resizeVertical(h, e, resizeHorizontal(h, e, s))

move(h, e, s) ==
    [s EXCEPT !.x = e.clientX - h.offsetX, !.y = e.clientY - h.offsetY]

\* The window dispatches a pointermove to its listeners in registration order.
RECURSIVE dispatchPointermove(_, _, _)
dispatchPointermove(listeners, e, s) ==
    IF listeners = <<>> THEN s
    ELSE LET h == Head(listeners)
             s1 == IF h.kind = "resize" THEN resizeHandler(h, e, s) ELSE move(h, e, s)
         IN dispatchPointermove(Tail(listeners), e, s1)

disposeNothing(listeners, id) == listeners

\* disposePointerMove(): removeEventListener of the closure it was returned for.
disposePointerMove(listeners, id) ==
    SelectSeq(listeners, LAMBDA h : h.id # id)

\* The window dispatches a pointerup: every attached listener calls its own
\* disposePointerMove.
RECURSIVE dispatchPointerup(_, _)
dispatchPointerup(ups, listeners) ==
    IF ups = <<>> THEN listeners
    ELSE dispatchPointerup(Tail(ups), disposePointerMove(listeners, Head(ups).dispose))

\* { once: true }: the browser removes a pointerup listener when it has run.
onceKeepsListeners(ups) == ups

onceRemoved(ups) == <<>>

\* ------------------------------------------- the inline copy, components/dmr.vue
\* Its refs, rendered size and window listeners are the fields of one record c.

dmrEdgeThreshold == 16

dmrInit ==
    [x |-> 0, y |-> 0, cursor |-> "default", width |-> 100, height |-> 100,
     initialX |-> 0, initialY |-> 0, rectWidth |-> 100, rectHeight |-> 100,
     windowPointermove |-> <<>>, windowPointerup |-> <<>>]

dmrRendered(c) ==
    [c EXCEPT !.rectWidth = RenderedLength(c.width, c.rectWidth),
              !.rectHeight = RenderedLength(c.height, c.rectHeight)]

dmrBoundingClientRect(c) ==
    [left |-> parentLeft + c.x, top |-> parentTop + c.y,
     width |-> c.rectWidth, height |-> c.rectHeight]

dmrOverElement(c, e) ==
    LET r == dmrBoundingClientRect(c) IN
    /\ lifecycle = "mounted"
    /\ r.left <= e.clientX /\ e.clientX < r.left + r.width
    /\ r.top <= e.clientY /\ e.clientY < r.top + r.height

dmrOnMounted(c) ==
    dmrRendered([c EXCEPT !.width = dmrBoundingClientRect(c).width,
                          !.height = dmrBoundingClientRect(c).height])

dmrGetPointerInfo(c, e) ==
    IF lifecycle = "mounted"
    THEN LET r == dmrBoundingClientRect(c)
             offsetX == e.clientX - r.left
             offsetY == e.clientY - r.top
             distanceToLeft == offsetX
             distanceToRight == r.width - offsetX
             distanceToTop == offsetY
             distanceToBottom == r.height - offsetY
         IN [isNull |-> FALSE, offsetX |-> offsetX, offsetY |-> offsetY,
             nearLeft   |-> distanceToLeft <= dmrEdgeThreshold,
             nearRight  |-> distanceToRight <= dmrEdgeThreshold,
             nearTop    |-> distanceToTop <= dmrEdgeThreshold,
             nearBottom |-> distanceToBottom <= dmrEdgeThreshold]
    ELSE NullInfo

dmrGetCursor(nearLeft, nearRight, nearTop, nearBottom) ==
    IF nearTop /\ nearLeft THEN "nw-resize"
    ELSE IF nearTop /\ nearRight THEN "ne-resize"
    ELSE IF nearBottom /\ nearLeft THEN "sw-resize"
    ELSE IF nearBottom /\ nearRight THEN "se-resize"
    ELSE IF nearTop THEN "n-resize"
    ELSE IF nearBottom THEN "s-resize"
    ELSE IF nearLeft THEN "w-resize"
    ELSE IF nearRight THEN "e-resize"
    ELSE "grab"

\* A window pointermove listener of the copy applied to its refs.
dmrCall(h, e, c) ==
    IF h.kind = "resize"
    THEN LET deltaX == e.clientX - h.startX
             deltaY == e.clientY - h.startY
             c1 == IF h.horizontal = "left"
                   THEN [c EXCEPT !.width = h.startWidth - deltaX,
                                  !.x = c.initialX + deltaX]
                   ELSE IF h.horizontal = "right"
                   THEN [c EXCEPT !.width = h.startWidth + deltaX]
                   ELSE c
         IN IF h.vertical = "top"
            THEN [c1 EXCEPT !.height = h.startHeight - deltaY,
                            !.y = c1.initialY + deltaY]
            ELSE IF h.vertical = "bottom"
            THEN [c1 EXCEPT !.height = h.startHeight + deltaY]
            ELSE c1
    ELSE [c EXCEPT !.x = e.clientX - h.offsetX, !.y = e.clientY - h.offsetY]

RECURSIVE dmrDispatch(_, _, _)
dmrDispatch(listeners, e, c) ==
    IF listeners = <<>> THEN c
    ELSE dmrDispatch(Tail(listeners), e, dmrCall(Head(listeners), e, c))

\* useEventListener(dnr, 'pointerdown', ...) of the copy.
dmrPointerdown(c, e, id) ==
    LET i == dmrGetPointerInfo(c, e)
        horizontal == IF i.nearRight THEN "right" ELSE IF i.nearLeft THEN "left" ELSE "none"
        vertical == IF i.nearBottom THEN "bottom" ELSE IF i.nearTop THEN "top" ELSE "none"
    IN IF ~dmrOverElement(c, e) \/ i.isNull THEN c
       ELSE IF horizontal # "none" \/ vertical # "none"
       THEN [c EXCEPT
               !.initialX = c.x,
               !.initialY = c.y,
               !.windowPointermove =
                   Append(@, [id |-> id, kind |-> "resize", horizontal |-> horizontal,
                              vertical |-> vertical, startX |-> e.clientX,
                              startY |-> e.clientY, startWidth |-> c.width,
                              startHeight |-> c.height, offsetX |-> 0, offsetY |-> 0]),
               !.windowPointerup = Append(@, [dispose |-> id])]
       ELSE [c EXCEPT
               !.windowPointermove =
                   Append(@, [id |-> id, kind |-> "move", horizontal |-> "none",
                              vertical |-> "none", startX |-> 0, startY |-> 0,
                              startWidth |-> 0, startHeight |-> 0,
                              offsetX |-> i.offsetX, offsetY |-> i.offsetY]),
               !.windowPointerup = Append(@, [dispose |-> id])]

\* A pointermove seen by the copy: its element listener, then its window listeners.
dmrPointermove(c, e) ==
    LET i == dmrGetPointerInfo(c, e)
        c1 == IF dmrOverElement(c, e) /\ ~i.isNull
              THEN [c EXCEPT !.cursor =
                       dmrGetCursor(i.nearLeft, i.nearRight, i.nearTop, i.nearBottom)]
              ELSE c
    IN dmrRendered(dmrDispatch(c.windowPointermove, e, c1))

\* A pointerup seen by the copy: each once-listener disposes its pointermove listener.
dmrPointerup(c) ==
    [c EXCEPT
       !.windowPointermove =
           SelectSeq(@, LAMBDA h :
               \A k \in 1..Len(c.windowPointerup) : c.windowPointerup[k].dispose # h.id),
       !.windowPointerup = <<>>]

\* -------------------------------------------------------------- environment

Event(type, cx, cy, onEl, fired) ==
    [type |-> type, clientX |-> cx, clientY |-> cy, onEl |-> onEl, fired |-> fired]

\* Pointer positions over the element, as offsets into its box: at the
\* threshold of each edge (lo, hi) and one pixel further inside (lo + 1, hi - 1),
\* for the four corners, the four edges and the interior.
ElementOffsets(w, h) ==
    LET lo == edgeThreshold
        wHi == w - edgeThreshold
        hHi == h - edgeThreshold
    IN {<<lo, lo>>, <<wHi, lo>>, <<lo, hHi>>, <<wHi, hHi>>,
        <<lo + 1, lo>>, <<lo + 1, hHi>>, <<lo, lo + 1>>, <<wHi, lo + 1>>,
        <<lo + 1, lo + 1>>, <<wHi - 1, hHi - 1>>}

ElementPoints ==
    LET r == getBoundingClientRect IN
    {[clientX |-> r.left + o[1], clientY |-> r.top + o[2]] :
        o \in {p \in ElementOffsets(r.width, r.height) :
                  /\ 0 <= p[1] /\ p[1] < r.width
                  /\ 0 <= p[2] /\ p[2] < r.height}}

\* Displacements of the pointer from where it last went down: none, one that
\* shrinks a box of the default size below twice the threshold from its left
\* and bottom edges, one that drags its left and top edges past the opposite ones.
Drags == {<<0, 0>>, <<80, -70>>, <<120, 110>>}

DragPoints ==
    {[clientX |-> anchor.clientX + d[1], clientY |-> anchor.clientY + d[2]] : d \in Drags}

\* While no session is open the pointer hovers over the element; during a
\* session it is dragged from where it went down, over the element or not.
MovePoints == IF windowPointermove = <<>> THEN ElementPoints ELSE DragPoints

NoAnchor ==
    [clientX |-> 0, clientY |-> 0, x |-> 0, y |-> 0, width |-> 0, height |-> 0,
     rect |-> [left |-> 0, top |-> 0, width |-> 0, height |-> 0]]

ParentOrigins == {<<0, 0>>, <<ParentOffset, ParentOffset>>}

\* ------------------------------------------------------------ specification

Init ==
    /\ lifecycle = "setup"
    /\ \E o \in ParentOrigins : parentLeft = o[1] /\ parentTop = o[2]
    /\ x = 0 /\ y = 0
    /\ cursor = "default"
    /\ width = DefaultSize /\ height = DefaultSize
    /\ initialX = 0 /\ initialY = 0
    /\ rectWidth = DefaultSize /\ rectHeight = DefaultSize
    /\ windowPointermove = <<>>
    /\ windowPointerup = <<>>
    /\ nextId = 0
    /\ info = NullInfo
    /\ last = Event("init", 0, 0, FALSE, 0)
    /\ anchor = NoAnchor
    /\ downsSinceUp = 0
    /\ snapshots = <<>>
    /\ dmr = dmrInit

\* onMounted: dnr.value is the rendered element; adopt its measured size.
Mount ==
    /\ lifecycle = "setup"
    /\ lifecycle' = "mounted"
    /\ width' = getBoundingClientRect.width
    /\ height' = getBoundingClientRect.height
    /\ rectWidth' = RenderedLength(width', rectWidth)
    /\ rectHeight' = RenderedLength(height', rectHeight)
    /\ last' = Event("mount", 0, 0, FALSE, 0)
    /\ info' = NullInfo
    /\ dmr' = dmrOnMounted(dmr)
    /\ UNCHANGED <<parentLeft, parentTop, x, y, cursor, initialX, initialY,
                   windowPointermove, windowPointerup, nextId, anchor,
                   downsSinceUp, snapshots>>

\* The component is unmounted: dnr.value becomes null and the listeners on the
\* element go with it. The window listeners were registered inside an event
\* listener, outside any effect scope, and stay.
Unmount ==
    /\ lifecycle = "mounted"
    /\ lifecycle' = "unmounted"
    /\ last' = Event("unmount", 0, 0, FALSE, 0)
    /\ info' = NullInfo
    /\ UNCHANGED <<parentLeft, parentTop, x, y, width, height, cursor, initialX,
                   initialY, rectWidth, rectHeight, windowPointermove,
                   windowPointerup, nextId, anchor, downsSinceUp, snapshots, dmr>>

\* The position of the pointer: where the last pointermove put it.
Pointer == [clientX |-> last.clientX, clientY |-> last.clientY]

\* useEventListener(dnr, 'pointerdown', ...). The pointer goes down where it
\* is, after it was moved there.
PointerDown ==
    /\ last.type = "pointermove"
    /\ OverElement(Pointer)
    /\ nextId < MaxSessions
    /\ LET e == Pointer
           i == getPointerInfo(e)
           directions == directionsOf(i)
       IN /\ ~i.isNull
          /\ info' = i
          /\ IF startsResize(directions)
             THEN /\ initialX' = x
                  /\ initialY' = y
                  /\ windowPointermove' =
                        Append(windowPointermove,
                               createResizeHandler(nextId, directions, e.clientX,
                                                   e.clientY, width, height))
             ELSE /\ UNCHANGED <<initialX, initialY>>
                  /\ windowPointermove' = Append(windowPointermove, createMove(nextId, i))
          /\ windowPointerup' = Append(windowPointerup, [dispose |-> nextId])
    /\ nextId' = nextId + 1
    /\ last' = Event("pointerdown", last.clientX, last.clientY, TRUE, 1)
    /\ anchor' = [clientX |-> last.clientX, clientY |-> last.clientY, x |-> x, y |-> y,
                  width |-> width, height |-> height, rect |-> getBoundingClientRect]
    /\ downsSinceUp' = downsSinceUp + 1
    /\ snapshots' = Append(snapshots, <<x, y>>)
    /\ dmr' = dmrPointerdown(dmr, Pointer, nextId)
    /\ UNCHANGED <<lifecycle, parentLeft, parentTop, x, y, width, height, cursor,
                   rectWidth, rectHeight>>

\* A pointermove: useEventListener(dnr, 'pointermove', ...) when the pointer is
\* over the element, then the window listeners of the sessions.
PointerMove(e) ==
    LET onEl == OverElement(e)
        i == getPointerInfo(e)
        s == dispatchPointermove(windowPointermove, e, Refs)
    IN /\ onEl \/ windowPointermove # <<>>
       /\ info' = IF onEl THEN i ELSE NullInfo
       /\ cursor' = IF onEl /\ ~i.isNull
                    THEN getCursor(i.nearLeft, i.nearRight, i.nearTop, i.nearBottom)
                    ELSE cursor
       /\ x' = s.x /\ y' = s.y /\ width' = s.width /\ height' = s.height
       /\ rectWidth' = RenderedLength(s.width, rectWidth)
       /\ rectHeight' = RenderedLength(s.height, rectHeight)
       /\ last' = Event("pointermove", e.clientX, e.clientY, onEl,
                        Len(windowPointermove) + (IF onEl THEN 1 ELSE 0))
       /\ dmr' = dmrPointermove(dmr, e)
       /\ UNCHANGED <<lifecycle, parentLeft, parentTop, initialX, initialY,
                      windowPointermove, windowPointerup, nextId, anchor, downsSinceUp,
                      snapshots>>

\* A pointerup reaching window, wherever the pointer is (the listeners take no
\* argument): every { once: true } listener runs.
PointerUp ==
    /\ windowPointerup # <<>>
    /\ windowPointermove' = dispatchPointerup(windowPointerup, windowPointermove)
    /\ windowPointerup' = onceRemoved(windowPointerup)
    /\ last' = Event("pointerup", 0, 0, FALSE, Len(windowPointerup))
    /\ info' = NullInfo
    /\ anchor' = NoAnchor
    /\ downsSinceUp' = 0
    /\ snapshots' = <<>>
    /\ dmr' = dmrPointerup(dmr)
    /\ UNCHANGED <<lifecycle, parentLeft, parentTop, x, y, width, height, cursor,
                   initialX, initialY, rectWidth, rectHeight, nextId>>

Next ==
    \/ Mount
    \/ Unmount
    \/ PointerDown
    \/ \E e \in MovePoints : PointerMove(e)
    \/ PointerUp

Spec == Init /\ [][Next]_vars

TypeOK ==
    /\ lifecycle \in {"setup", "mounted", "unmounted"}
    /\ cursor \in {"default", "n-resize", "s-resize", "e-resize", "w-resize",
                   "ne-resize", "nw-resize", "se-resize", "sw-resize", "grab"}
    /\ rectWidth >= 0 /\ rectHeight >= 0
    /\ nextId \in 0..MaxSessions

\* ------------------------------------------------------------------ claims

\* The proximity of the last pointer-down to each edge, from the distances of
\* the pointer to the edges of the bounding box it went down on.
DownNearLeft == anchor.clientX - anchor.rect.left <= 16
DownNearRight == anchor.rect.left + anchor.rect.width - anchor.clientX <= 16
DownNearTop == anchor.clientY - anchor.rect.top <= 16
DownNearBottom == anchor.rect.top + anchor.rect.height - anchor.clientY <= 16

\* The session manager's states: exactly one session is open.
Resizing == Len(windowPointermove) = 1 /\ windowPointermove[1].kind = "resize"
Moving == Len(windowPointermove) = 1 /\ windowPointermove[1].kind = "move"

\* The closure the last pointer-down registered.
NewestListener == windowPointermove[Len(windowPointermove)]

\* The displacement of the pointer since it went down.
dx == last.clientX - anchor.clientX
dy == last.clientY - anchor.clientY

\* C1: a pointer-down while idle starts a resize session iff the pointer is
\* within edgeThreshold (16, boundary included) of at least one edge of the
\* bounding box, and a move session iff it is within it of none.
C1_DownStartsResizeIffNearEdge ==
    (last.type = "pointerdown" /\ downsSinceUp = 1) =>
        LET near == DownNearLeft \/ DownNearRight \/ DownNearTop \/ DownNearBottom
        IN /\ Len(windowPointermove) = 1
           /\ Resizing <=> near
           /\ Moving <=> ~near

\* A resize session started at distance exactly edgeThreshold from the left
\* edge and further from the other three.
C1_Witness ==
    /\ last.type = "pointerdown" /\ downsSinceUp = 1
    /\ Resizing
    /\ anchor.clientX - anchor.rect.left = 16
    /\ ~DownNearRight /\ ~DownNearTop /\ ~DownNearBottom

\* C2: a pointer-down near both the left and the right edge starts a session
\* whose horizontal direction is 'left'; one near both the top and the bottom
\* edge starts a session whose vertical direction is 'top'.
C2_LeftAndTopWin ==
    last.type = "pointerdown" =>
        /\ (DownNearLeft /\ DownNearRight) => NewestListener.horizontal = "left"
        /\ (DownNearTop /\ DownNearBottom) => NewestListener.vertical = "top"

\* C3: in a move session, after every pointer-move the position is the
\* position at pointer-down plus the displacement of the pointer since then.
C3_MoveFollowsPointer ==
    (Moving /\ last.type = "pointermove") =>
        /\ x = anchor.x + dx
        /\ y = anchor.y + dy

\* C4: at most one session is open: at most one window pointermove listener
\* (and one window pointerup listener) is attached.
C4_AtMostOneSession ==
    /\ Len(windowPointermove) <= 1
    /\ Len(windowPointerup) <= 1

\* C5: x, y, width and height change only while a session is open or at mount:
\* with no pointer-down since the last pointer-up, a pointer-move changes none.
C5_IdleMovesKeepGeometry ==
    [][/\ (downsSinceUp = 0 /\ last'.type = "pointermove")
            => <<x, y, width, height>>' = <<x, y, width, height>>
       /\ <<x, y, width, height>>' # <<x, y, width, height>>
            => (downsSinceUp > 0 \/ last'.type = "mount")]_vars

\* A pointer-move while idle, after a session that changed the geometry.
C5_Witness ==
    /\ last.type = "pointermove" /\ last.onEl
    /\ downsSinceUp = 0
    /\ nextId > 0
    /\ <<x, y, width, height>> # <<0, 0, 100, 100>>

\* C6: after a pointer-up no window pointermove and no window pointerup
\* listener of an earlier pointer-down is attached; the listeners attached are
\* those of the pointer-downs since the last pointer-up, one pair each.
C6_PointerUpDetachesAll ==
    /\ last.type = "pointerup" => (windowPointermove = <<>> /\ windowPointerup = <<>>)
    /\ Len(windowPointermove) = downsSinceUp
    /\ Len(windowPointerup) = downsSinceUp

\* One pointer-up that ended two overlapping sessions.
C6_Witness ==
    /\ last.type = "pointerup" /\ last.fired = 2
    /\ windowPointermove = <<>> /\ windowPointerup = <<>>

\* C7: in the state Resizing with horizontal direction 'left', after every
\* pointer-move width = width at pointer-down - dx and x = x at pointer-down + dx,
\* unclamped, so x + width keeps its pointer-down value; likewise for 'top'
\* with height, y and dy.
C7_LeftTopResizeKeepsFarEdge ==
    (Resizing /\ last.type = "pointermove") =>
        /\ windowPointermove[1].horizontal = "left" =>
              /\ width = anchor.width - dx
              /\ x = anchor.x + dx
              /\ x + width = anchor.x + anchor.width
        /\ windowPointermove[1].vertical = "top" =>
              /\ height = anchor.height - dy
              /\ y = anchor.y + dy
              /\ y + height = anchor.y + anchor.height

\* A top-left resize dragged past the opposite corner: negative width and height.
C7_Witness ==
    /\ Resizing /\ last.type = "pointermove"
    /\ windowPointermove[1].horizontal = "left"
    /\ windowPointermove[1].vertical = "top"
    /\ width < 0 /\ height < 0
    /\ x # anchor.x

\* C8: in the state Resizing, direction 'right' sets width = width at
\* pointer-down + dx and keeps x, 'bottom' sets height = height at pointer-down
\* + dy and keeps y; no horizontal direction keeps x and width, no vertical
\* direction keeps y and height.
C8_RightBottomResizeKeepsOrigin ==
    (Resizing /\ last.type = "pointermove") =>
        /\ windowPointermove[1].horizontal = "right" =>
              (width = anchor.width + dx /\ x = anchor.x)
        /\ windowPointermove[1].vertical = "bottom" =>
              (height = anchor.height + dy /\ y = anchor.y)
        /\ windowPointermove[1].horizontal = "none" =>
              (width = anchor.width /\ x = anchor.x)
        /\ windowPointermove[1].vertical = "none" =>
              (height = anchor.height /\ y = anchor.y)

\* A right-edge resize, no vertical direction, the pointer dragged diagonally.
C8_Witness ==
    /\ Resizing /\ last.type = "pointermove"
    /\ windowPointermove[1].horizontal = "right"
    /\ windowPointermove[1].vertical = "none"
    /\ dx # 0 /\ dy # 0
    /\ width = anchor.width + dx

\* C9: after a pointer-move over the element whose flags contain two adjacent
\* edges the cursor is a corner hint: nw for top+left, else ne for top+right,
\* else sw for bottom+left, else se for bottom+right.
C9_CornerBeforeEdge ==
    (last.type = "pointermove" /\ last.onEl) =>
        LET nl == info.nearLeft
            nr == info.nearRight
            nt == info.nearTop
            nb == info.nearBottom
        IN /\ (nt /\ nl) => cursor = "nw-resize"
           /\ (~(nt /\ nl) /\ nt /\ nr) => cursor = "ne-resize"
           /\ (~nt /\ nb /\ nl) => cursor = "sw-resize"
           /\ (~nt /\ ~nl /\ nb /\ nr) => cursor = "se-resize"
           /\ ((nt \/ nb) /\ (nl \/ nr)) =>
                 cursor \in {"nw-resize", "ne-resize", "sw-resize", "se-resize"}

\* A pointer-move near all four edges of a box shrunk below twice the threshold.
C9_Witness ==
    /\ last.type = "pointermove" /\ last.onEl
    /\ info.nearLeft /\ info.nearRight /\ info.nearTop /\ info.nearBottom
    /\ cursor = "nw-resize"

\* C10: after a pointer-move over the element with exactly one flag true the
\* cursor is that edge's hint, and with no flag true it is 'grab'.
C10_SingleEdgeOrGrab ==
    (last.type = "pointermove" /\ last.onEl) =>
        LET nl == info.nearLeft
            nr == info.nearRight
            nt == info.nearTop
            nb == info.nearBottom
        IN /\ ~info.isNull
           /\ (nt /\ ~nb /\ ~nl /\ ~nr) => cursor = "n-resize"
           /\ (~nt /\ nb /\ ~nl /\ ~nr) => cursor = "s-resize"
           /\ (~nt /\ ~nb /\ nl /\ ~nr) => cursor = "w-resize"
           /\ (~nt /\ ~nb /\ ~nl /\ nr) => cursor = "e-resize"
           /\ (~nt /\ ~nb /\ ~nl /\ ~nr) => cursor = "grab"

\* A pointer-move while idle over the interior of the element.
C10_Witness ==
    /\ last.type = "pointermove" /\ last.onEl
    /\ downsSinceUp = 0
    /\ ~info.nearLeft /\ ~info.nearRight /\ ~info.nearTop /\ ~info.nearBottom
    /\ cursor = "grab"

\* C11: a pointer-down or pointer-move that arrives while the element is not
\* mounted changes none of x, y, width, height, cursor and the attached listeners.
C11_UnmountedEventsIgnored ==
    [][(lifecycle # "mounted" /\ last'.type \in {"pointerdown", "pointermove"})
          => /\ <<x, y, width, height, cursor>>' = <<x, y, width, height, cursor>>
             /\ windowPointermove' = windowPointermove
             /\ windowPointerup' = windowPointerup]_vars

\* The listener whose write of x (of y) is the last one in a pointermove
\* dispatch: the last registered move closure or left (top) resize handler.
\* 0 when no attached listener writes it.
RECURSIVE LastWriter(_, _)
LastWriter(axis, n) ==
    IF n = 0 THEN 0
    ELSE LET h == windowPointermove[n]
             writes == \/ h.kind = "move"
                       \/ axis = "x" /\ h.horizontal = "left"
                       \/ axis = "y" /\ h.vertical = "top"
         IN IF writes THEN n ELSE LastWriter(axis, n - 1)

\* C12: the x (y) a left (top) resize session writes on a pointer-move is the
\* position snapshot of its own pointer-down plus the displacement since its own
\* pointer-down, also when a later pointer-down arrived before its pointer-up.
C12_OwnPositionSnapshot ==
    last.type = "pointermove" =>
        LET kx == LastWriter("x", Len(windowPointermove))
            ky == LastWriter("y", Len(windowPointermove))
        IN /\ (kx > 0 /\ windowPointermove[kx].kind = "resize") =>
                 x = snapshots[kx][1] + (last.clientX - windowPointermove[kx].startX)
           /\ (ky > 0 /\ windowPointermove[ky].kind = "resize") =>
                 y = snapshots[ky][2] + (last.clientY - windowPointermove[ky].startY)

\* Pointer positions inside and outside the box, up to Reach pixels beyond its
\* edges, on the horizontal and on the vertical axis through its top-left corner.
Reach == 20

ProbesX ==
    LET r == getBoundingClientRect IN
    {[clientX |-> r.left + o, clientY |-> r.top] : o \in (0 - Reach)..(r.width + Reach)}

ProbesY ==
    LET r == getBoundingClientRect IN
    {[clientX |-> r.left, clientY |-> r.top + o] : o \in (0 - Reach)..(r.height + Reach)}

\* C14: on a bounding box wider than 2 x edgeThreshold no pointer position,
\* inside or outside the box, is near both the left and the right edge; on one
\* higher than 2 x edgeThreshold none is near both the top and the bottom edge.
\* Probed between sessions: a pointer-up leaves the box as it was, so every box
\* the element takes is also the box of a state that follows a pointer-up.
C14_OppositeEdgesExclusive ==
    (lifecycle = "mounted" /\ last.type \in {"mount", "pointerup"}) =>
        /\ rectWidth > 32 =>
              \A p \in ProbesX :
                  LET i == getPointerInfo(p) IN ~(i.nearLeft /\ i.nearRight)
        /\ rectHeight > 32 =>
              \A p \in ProbesY :
                  LET i == getPointerInfo(p) IN ~(i.nearTop /\ i.nearBottom)

\* A box wider but not higher than twice the threshold, moved away from the
\* viewport origin: a hover near its top and bottom edges and its left edge only.
C14_Witness ==
    /\ last.type = "pointermove" /\ last.onEl /\ downsSinceUp = 0
    /\ rectWidth > 32 /\ rectHeight <= 32
    /\ x > 0
    /\ info.nearTop /\ info.nearBottom
    /\ info.nearLeft /\ ~info.nearRight

\* C15: in the state Resizing x, y, width and height after a pointer-move are a
\* function of the event's coordinates and the values at pointer-down alone; a
\* pointer-move back to the pointer-down coordinates restores all four.
C15_ResizeIsHistoryFree ==
    (Resizing /\ last.type = "pointermove") =>
        LET h == windowPointermove[1]
            ax == IF h.horizontal = "left" THEN dx ELSE 0
            aw == IF h.horizontal = "left" THEN 0 - dx
                  ELSE IF h.horizontal = "right" THEN dx ELSE 0
            ay == IF h.vertical = "top" THEN dy ELSE 0
            ah == IF h.vertical = "top" THEN 0 - dy
                  ELSE IF h.vertical = "bottom" THEN dy ELSE 0
        IN /\ <<x, y, width, height>> =
                 <<anchor.x + ax, anchor.y + ay, anchor.width + aw, anchor.height + ah>>
           /\ (dx = 0 /\ dy = 0) =>
                 <<x, y, width, height>> = <<anchor.x, anchor.y, anchor.width, anchor.height>>

\* A bottom-left resize whose pointer is back where it went down after it was
\* dragged away: the cursor still shows the hint of the place it was dragged to.
C15_Witness ==
    /\ Resizing /\ last.type = "pointermove"
    /\ dx = 0 /\ dy = 0
    /\ windowPointermove[1].horizontal = "left"
    /\ windowPointermove[1].vertical = "bottom"
    /\ cursor = "ne-resize"
    /\ <<x, y, width, height>> = <<anchor.x, anchor.y, anchor.width, anchor.height>>

\* C16: a pointer-down inside a bounding box whose width or height is at most
\* 2 x edgeThreshold starts a resize session, never a move session.
C16_SmallBoxNeverMoves ==
    (last.type = "pointerdown"
        /\ (anchor.rect.width <= 32 \/ anchor.rect.height <= 32)) =>
        NewestListener.kind = "resize"

\* A pointer-down inside a box shrunk to 20 px width by an earlier resize, far
\* from its top and bottom edges.
C16_Witness ==
    /\ last.type = "pointerdown"
    /\ anchor.rect.width <= 32 /\ anchor.rect.height > 32
    /\ ~DownNearTop /\ ~DownNearBottom
    /\ anchor.width < 100
    /\ NewestListener.kind = "resize"

\* C17: in the state Resizing no pointer-move changes the cursor: it stays the
\* hint resolved for the pointer-down position.
C17_CursorKeptWhileResizing ==
    [][(Resizing /\ last'.type = "pointermove") => cursor' = cursor]_vars

\* C18: the cursor is 'default' only until the first pointer-move over the
\* mounted element: such a move sets one of the nine other hints, and no step
\* sets 'default' again.
C18_DefaultOnlyInitially ==
    [][/\ (last'.type = "pointermove" /\ last'.onEl) =>
             cursor' \in {"n-resize", "s-resize", "e-resize", "w-resize", "ne-resize",
                          "nw-resize", "se-resize", "sw-resize", "grab"}
       /\ cursor # "default" => cursor' # "default"]_vars

\* A hover over the interior after a session: no flag is true and the cursor is
\* 'grab', not 'default'.
C18_Witness ==
    /\ last.type = "pointermove" /\ last.onEl
    /\ nextId > 0 /\ downsSinceUp = 0
    /\ ~info.nearLeft /\ ~info.nearRight /\ ~info.nearTop /\ ~info.nearBottom
    /\ cursor # "default"

\* C13: fed the same mount, pointer-down, pointer-move and pointer-up events,
\* useResizable with edgeThreshold 16 and the inline copy of dmr.vue show the
\* same x, y, width, height and cursor after every event.
C13_CopiesAgree ==
    <<dmr.x, dmr.y, dmr.width, dmr.height, dmr.cursor>> = <<x, y, width, height, cursor>>

\* Two overlapping sessions on a box shrunk below twice the threshold, after a
\* pointer-move handled by both.
C13_Witness ==
    /\ last.type = "pointermove" /\ last.fired >= 2
    /\ Len(windowPointermove) = 2 /\ Len(dmr.windowPointermove) = 2
    /\ rectWidth <= 32
    /\ x # 0 /\ cursor # "default"
    /\ dmr.x = x /\ dmr.width = width /\ dmr.cursor = cursor

====
